---- MODULE Spec2Model ----
(***************************************************************************)
(* A model of models/stics.py: run_simulation, the daily maize simulation  *)
(* (thermal time, layered soil water, soil mineral nitrogen, LAI and       *)
(* biomass growth limited by a Nitrogen Nutrition Index).                  *)
(*                                                                         *)
(* Numbers.  The program computes in floats; the model computes in fixed   *)
(* point: a real x is the integer x * SCALE, products and quotients are    *)
(* rounded down to 1/SCALE.  Dates are day numbers.  TLC's integers are    *)
(* 32 bits wide, so the inputs are chosen to keep every product below     *)
(* 2^31.                                                                   *)
(***************************************************************************)
EXTENDS Integers, Sequences, FiniteSets, TLC

VARIABLES
    soil,        \* input: the soil profile, soil['layers']
    weather,     \* input: the weather frame, one record per row
    crop,        \* input: the crop parameters
    management,  \* input: sowing, initial nitrate, fertilization, irrigation
    policy,      \* the growth policy the caller wants ("A" or "B"); run_simulation
                 \* has no parameter that takes it
    pc,          \* position in run_simulation
    i,           \* the loop index (-1: not bound yet)
    water_mm,    \* soil water per layer
    Nmin,        \* mineral nitrogen per layer
    biomass,     \* cumulative biomass
    TT_accum,    \* accumulated thermal time
    daily,       \* the daily frame, preallocated with one row per weather row
    loc,         \* the loop body's local variables of the current iteration
    uptake_cum,  \* history: the sum of the uptake of every iteration so far
    rows_done,   \* history: the number of iterations that ran to their end
    hist,        \* history: the locals of every iteration that ran to its end
    summary,     \* the returned summary (NoSummary until it is built)
    run,         \* caller: which call of run_simulation on these objects (1, 2)
    given,       \* caller: the four input objects as they were handed over
    first,       \* caller: what the first call returned
    fpc,         \* fetch_weather: position in the function
    today,       \* fetch_weather: date.today()
    sd,          \* fetch_weather: start date
    ed,          \* fetch_weather: end date
    parts,       \* fetch_weather: the frames to concatenate
    y_off,       \* fetch_moving_avg_forecast: the loop variable y
    frames,      \* fetch_moving_avg_forecast: one historical frame per year
    df           \* fetch_weather: the returned frame

vars == <<soil, weather, crop, management, policy, pc, i, water_mm, Nmin,
          biomass, TT_accum, daily, loc, uptake_cum, rows_done, hist, summary,
          run, given, first, fpc, today, sd, ed, parts, y_off, frames, df>>

inputs == <<soil, weather, crop, management, policy>>

\* The state of fetch_weather
fetching == <<fpc, today, sd, ed, parts, y_off, frames, df>>

\* The state of the caller of run_simulation, and of fetch_weather
outside == <<run, given, first, fetching>>

-----------------------------------------------------------------------------
(* Fixed-point arithmetic *)

SCALE == 1000

Min(a, b) == IF a <= b THEN a ELSE b

Max(a, b) == IF a >= b THEN a ELSE b

\* a * b of two fixed-point numbers
Mul(a, b) == (a * b) \div SCALE

\* a / b of two fixed-point numbers, b # 0
Div(a, b) == (a * SCALE) \div b

\* x / (y + 1e-6) for y >= 0.  1e-6 is below the resolution: it only matters
\* when y = 0, where the quotient is x * 10^6; that is saturated to
\* x's sign * 10^6 (every use takes min(1, .) of it or multiplies it by 0).
DivEps(x, y) ==
    IF y = 0
    THEN (IF x = 0 THEN 0 ELSE IF x > 0 THEN 1000 * SCALE ELSE -(1000 * SCALE))
    ELSE Div(x, y)

\* np.clip(x, lo, hi)
Clip(x, lo, hi) == Max(lo, Min(x, hi))

RECURSIVE IsqrtBin(_, _, _)
\* the largest r in lo..hi with r * r <= v
IsqrtBin(v, lo, hi) ==
    IF lo >= hi THEN lo
    ELSE LET mid == (lo + hi + 1) \div 2
         IN  IF mid * mid <= v THEN IsqrtBin(v, mid, hi) ELSE IsqrtBin(v, lo, mid - 1)

\* x ** 0.5 of a fixed-point x >= 0
Sqrt(x) == IsqrtBin(x * SCALE, 0, 40000)

RECURSIVE ExpSeries(_, _, _)
\* sum of the Taylor terms x^k / k! for k >= the term given
ExpSeries(x, term, k) ==
    IF term = 0 THEN 0
    ELSE term + ExpSeries(x, (term * x) \div (k * SCALE), k + 1)

\* np.exp(-x) of a fixed-point x >= 0, as 1 / exp(x)
ExpNeg(x) == (SCALE * SCALE) \div ExpSeries(x, SCALE, 1)

RECURSIVE SumSeq(_)
\* ndarray.sum() / Series.sum()
SumSeq(s) == IF s = <<>> THEN 0 ELSE Head(s) + SumSeq(Tail(s))

-----------------------------------------------------------------------------
(* The inputs a run is given: small sets of soils, weather series, crops and *)
(* management schedules.                                                     *)

MaxWeatherLen == 5

MaxCycle == 3

\* One weather row: a warm dry day, a cold dark day, a rainy day.
Warm == [TMIN |-> 15 * SCALE, TMAX |-> 25 * SCALE, RAIN |-> 0, RADIATION |-> 20 * SCALE]

Cold == [TMIN |-> 2 * SCALE, TMAX |-> 6 * SCALE, RAIN |-> 0, RADIATION |-> 0]

Wet == [TMIN |-> 10 * SCALE, TMAX |-> 14 * SCALE, RAIN |-> 30 * SCALE, RADIATION |-> 10 * SCALE]

\* The pairs of kinds a series alternates between.
WeatherPatterns == {<<Warm, Warm>>, <<Warm, Wet>>, <<Cold, Warm>>, <<Wet, Cold>>}

\* The sowing event every schedule holds.
Sowing == [date |-> 10, density |-> 8 * SCALE]

\* A date-ascending, gap-free series of n rows from date `start`, its rows
\* alternating between the kinds k1 and k2.
Series(start, n, k1, k2) ==
    [k \in 1..n |->
        [DATE |-> start + k - 1] @@ (IF k % 2 = 1 THEN k1 ELSE k2)]

Weathers ==
    {Series(start, n, p[1], p[2]) :
        start \in {Sowing.date - 1, Sowing.date},
        n \in 0..MaxWeatherLen, p \in WeatherPatterns}

\* The default one-layer profile of preprocess.py; a two-layer profile of
\* unequal thicknesses; a two-layer profile with field_capacity =
\* wilting_point + 0.01; a coarse one-metre layer that holds 5 mm of water.
Soils ==
    { [layers |-> << [depth_top |-> 0, depth_bottom |-> (3 * SCALE) \div 2,
                      field_capacity |-> 300, wilting_point |-> 100] >>],
      [layers |-> << [depth_top |-> 0, depth_bottom |-> 600,
                      field_capacity |-> 300, wilting_point |-> 100],
                     [depth_top |-> 600, depth_bottom |-> (3 * SCALE) \div 2,
                      field_capacity |-> 250, wilting_point |-> 120] >>],
      [layers |-> << [depth_top |-> 0, depth_bottom |-> 300,
                      field_capacity |-> 110, wilting_point |-> 100],
                     [depth_top |-> 300, depth_bottom |-> (3 * SCALE) \div 2,
                      field_capacity |-> 130, wilting_point |-> 120] >>],
      [layers |-> << [depth_top |-> 0, depth_bottom |-> SCALE,
                      field_capacity |-> 5, wilting_point |-> 0] >>] }

Crops ==
    { [Cycle_days |-> c, Light_Use_Efficiency |-> 3 * SCALE, Max_LAI |-> 5 * SCALE] :
        c \in (MaxCycle - 1)..MaxCycle }

\* No events; two fertilizations of one date and two irrigations of one date,
\* listed in either order.
Schedules ==
    { [fertilization |-> <<>>, irrigation |-> <<>>],
      [fertilization |-> << [date |-> Sowing.date + 1, amount_kgN_ha |-> 10 * SCALE],
                            [date |-> Sowing.date + 1, amount_kgN_ha |-> 20 * SCALE] >>,
       irrigation |-> << [date |-> Sowing.date, amount_mm |-> 15 * SCALE],
                         [date |-> Sowing.date, amount_mm |-> 5 * SCALE] >>],
      [fertilization |-> << [date |-> Sowing.date + 1, amount_kgN_ha |-> 20 * SCALE],
                            [date |-> Sowing.date + 1, amount_kgN_ha |-> 10 * SCALE] >>,
       irrigation |-> << [date |-> Sowing.date, amount_mm |-> 5 * SCALE],
                         [date |-> Sowing.date, amount_mm |-> 15 * SCALE] >>] }

Managements ==
    { [sowing |-> Sowing, initial_nitrate_kgN_ha |-> n0,
       fertilization |-> s.fertilization, irrigation |-> s.irrigation] :
        n0 \in {0, 500 * SCALE}, s \in Schedules }

Policies == {"A", "B"}

-----------------------------------------------------------------------------
(* run_simulation: what it derives from its inputs before the loop *)

layers == soil.layers

n_layers == Len(layers)

FC == [l \in 1..n_layers |-> layers[l].field_capacity]

WP == [l \in 1..n_layers |-> layers[l].wilting_point]

thickness == [l \in 1..n_layers |-> layers[l].depth_bottom - layers[l].depth_top]

\* FC * thickness * 1000: a layer's water content at field capacity (mm)
FieldCapacity_mm == [l \in 1..n_layers |-> Mul(FC[l], thickness[l]) * 1000]

InitWater == FieldCapacity_mm

InitNmin == [l \in 1..n_layers |-> management.initial_nitrate_kgN_ha \div n_layers]

TT_base == 8 * SCALE

veg_days == (crop.Cycle_days * SCALE) \div 2

base_dLAI == Div(crop.Max_LAI, veg_days)

dates == [k \in 1..Len(weather) |-> weather[k].DATE]

n_days == Len(dates)

ZeroRow(d) ==
    [date |-> d, TT |-> 0, LAI |-> 0, Biomass |-> 0, SWC |-> 0, Nmin_total |-> 0, ETa |-> 0]

InitDaily == [k \in 1..n_days |-> ZeroRow(dates[k])]

root_frac == [l \in 1..n_layers |-> Div(thickness[l], SumSeq(thickness))]

\* {date: amount for ev in events}: a dict, so of the events of one date the
\* last one listed is the one kept
fert ==
    LET evs == management.fertilization
    IN  [d \in {evs[k].date : k \in DOMAIN evs} |->
            LET last == CHOOSE k \in DOMAIN evs :
                            /\ evs[k].date = d
                            /\ \A j \in DOMAIN evs : evs[j].date = d => j <= k
            IN  evs[last].amount_kgN_ha]

irr ==
    LET evs == management.irrigation
    IN  [d \in {evs[k].date : k \in DOMAIN evs} |->
            LET last == CHOOSE k \in DOMAIN evs :
                            /\ evs[k].date = d
                            /\ \A j \in DOMAIN evs : evs[j].date = d => j <= k
            IN  evs[last].amount_mm]

sow_date == management.sowing.date

mineralization_rate == SCALE \div 2

leaching_factor == SCALE \div 10

\* the row of the weather frame and the date the loop is at
row == weather[i + 1]

day == dates[i + 1]

NoSummary == [days_simulated |-> -1]

NoLocals ==
    [dTT |-> 0, PET |-> 0, ETa |-> 0, LAI |-> 0, IPAR |-> 0, potential_dB |-> 0,
     Ndemand |-> 0, supply |-> 0, uptake |-> 0, NNI |-> 0, dB |-> 0]

\* Nothing returned yet
NoFirst == [daily |-> <<>>, summary |-> NoSummary, pc |-> "for"]

NoDate == [year |-> 0, month |-> 0, day |-> 0]

\* fetch_weather is not running
FetchUnused ==
    /\ fpc = "unused"
    /\ today = NoDate
    /\ sd = NoDate
    /\ ed = NoDate
    /\ parts = <<>>
    /\ y_off = 0
    /\ frames = <<>>
    /\ df = <<>>

Init ==
    /\ soil \in Soils
    /\ weather \in Weathers
    /\ crop \in Crops
    /\ management \in Managements
    /\ policy \in Policies
    /\ pc = "for"
    /\ i = -1
    /\ water_mm = InitWater
    /\ Nmin = InitNmin
    /\ biomass = 0
    /\ TT_accum = 0
    /\ daily = InitDaily
    /\ loc = NoLocals
    /\ uptake_cum = 0
    /\ rows_done = 0
    /\ hist = <<>>
    /\ summary = NoSummary
    /\ run = 1
    /\ given = inputs
    /\ first = NoFirst
    /\ FetchUnused

-----------------------------------------------------------------------------
(* run_simulation: the loop, one action per numbered step of its body *)

\* daily.at[i, col] = v
SetDaily(d, col, v) == [d EXCEPT ![i + 1] = [@ EXCEPT ![col] = v]]

\* for i, day in enumerate(dates): the next row, or the end of the loop
ForNext ==
    /\ pc = "for"
    /\ IF i + 1 < n_days
       THEN /\ i' = i + 1
            /\ pc' = "thermal"
       ELSE /\ i' = i
            /\ pc' = "summary"
    /\ UNCHANGED <<inputs, outside, hist, water_mm, Nmin, biomass, TT_accum, daily, loc,
                   uptake_cum, rows_done, summary>>

\* (tmin + tmax) / 2.0 - TT_base, without the floor at 0
dTT_NoFloor == (row.TMIN + row.TMAX) \div 2 - TT_base

\* max(0.0, (tmin + tmax) / 2.0 - TT_base)
dTT == Max(0, (row.TMIN + row.TMAX) \div 2 - TT_base)

\* 1. Thermal time accumulation
ThermalTime ==
    /\ pc = "thermal"
    /\ TT_accum' = TT_accum + dTT
    /\ daily' = SetDaily(daily, "TT", TT_accum')
    /\ loc' = [loc EXCEPT !.dTT = dTT]
    /\ pc' = "events"
    /\ UNCHANGED <<inputs, outside, hist, i, water_mm, Nmin, biomass, uptake_cum, rows_done, summary>>

\* if day in fert: Nmin += fert[day] / n_layers
NminAfterFert ==
    IF day \in DOMAIN fert
    THEN [l \in 1..n_layers |-> Nmin[l] + fert[day] \div n_layers]
    ELSE Nmin

\* if day in irr: water_mm += irr[day] * root_frac
WaterAfterIrr ==
    IF day \in DOMAIN irr
    THEN [l \in 1..n_layers |-> water_mm[l] + Mul(irr[day], root_frac[l])]
    ELSE water_mm

\* step 2 popping the events it applies off the management dict
Events_ConsumesEvents ==
    /\ pc = "events"
    /\ Nmin' = NminAfterFert
    /\ water_mm' = WaterAfterIrr
    /\ management' = [management EXCEPT
                         !.fertilization = SelectSeq(@, LAMBDA ev : ev.date # day),
                         !.irrigation = SelectSeq(@, LAMBDA ev : ev.date # day)]
    /\ pc' = "water"
    /\ UNCHANGED <<soil, weather, crop, policy, outside, hist, i, biomass, TT_accum,
                   daily, loc, uptake_cum, rows_done, summary>>

\* 2. Events: fertilization and irrigation
Events ==
    /\ pc = "events"
    /\ Nmin' = NminAfterFert
    /\ water_mm' = WaterAfterIrr
    /\ pc' = "water"
    /\ UNCHANGED <<inputs, outside, hist, i, biomass, TT_accum, daily, loc, uptake_cum, rows_done, summary>>

\* 0.0023 * (tmax - tmin)**0.5 * ((tmax + tmin) / 2.0 + 17.8) * rad, the
\* factor 0.0023 = 23/10000 applied after the first product to keep its digits
PET ==
    Mul((Mul(Sqrt(row.TMAX - row.TMIN),
             (row.TMAX + row.TMIN) \div 2 + (178 * SCALE) \div 10) * 23) \div 10000,
        row.RADIATION)

\* np.clip((w / 1000.0 - WP) / (FC - WP), 0.0, 1.0) of layer l holding w mm
AvailFrac(w, l) == Clip(Div(w \div 1000 - WP[l], FC[l] - WP[l]), 0, SCALE)

avail_frac == [l \in 1..n_layers |-> AvailFrac(water_mm[l], l)]

ETa_layers == [l \in 1..n_layers |-> Mul(PET, avail_frac[l])]

\* np.maximum(water_mm - ETa_layers, 0.0), then += rain * root_frac
WaterAfterBalance == [l \in 1..n_layers |->
    Max(water_mm[l] - ETa_layers[l], 0) + Mul(row.RAIN, root_frac[l])]

\* 3. Water balance
WaterBalance ==
    /\ pc = "water"
    /\ water_mm' = WaterAfterBalance
    /\ loc' = [loc EXCEPT !.PET = PET, !.ETa = SumSeq(ETa_layers)]
    /\ daily' = SetDaily(SetDaily(daily, "ETa", SumSeq(ETa_layers)),
                         "SWC", SumSeq(water_mm'))
    /\ pc' = "growth"
    /\ UNCHANGED <<inputs, outside, hist, i, Nmin, biomass, TT_accum, uptake_cum, rows_done, summary>>

\* the LAI without the cap at Max_LAI
PotentialLAI_NoCap ==
    IF i = 0
    THEN base_dLAI
    ELSE IF (day - sow_date) * SCALE <= veg_days
         THEN daily[i].LAI + base_dLAI
         ELSE daily[i].LAI

\* the LAI of the day before the NNI is applied: from the LAI recorded for
\* the day before
PotentialLAI ==
    IF i = 0
    THEN Min(base_dLAI, crop.Max_LAI)
    ELSE IF (day - sow_date) * SCALE <= veg_days
         THEN Min(daily[i].LAI + base_dLAI, crop.Max_LAI)
         ELSE daily[i].LAI

\* rad * (1.0 - np.exp(-0.65 * LAI))
IPAR(lai) == Mul(row.RADIATION, SCALE - ExpNeg(Mul((65 * SCALE) \div 100, lai)))

\* crop['Light_Use_Efficiency'] * IPAR * management['sowing']['density']
PotentialDB(lai) == Mul(Mul(crop.Light_Use_Efficiency, IPAR(lai)), management.sowing.density)

\* step 4 adding the potential increment to the biomass itself
Growth_UpdatesBiomass ==
    /\ pc = "growth"
    /\ loc' = [loc EXCEPT !.LAI = PotentialLAI,
                          !.IPAR = IPAR(PotentialLAI),
                          !.potential_dB = PotentialDB(PotentialLAI)]
    /\ biomass' = biomass + PotentialDB(PotentialLAI)
    /\ pc' = "nitrogen"
    /\ UNCHANGED <<inputs, outside, hist, i, water_mm, Nmin, TT_accum, daily,
                   uptake_cum, rows_done, summary>>

\* 4. Potential LAI & biomass increments
Growth ==
    /\ pc = "growth"
    /\ loc' = [loc EXCEPT !.LAI = PotentialLAI,
                          !.IPAR = IPAR(PotentialLAI),
                          !.potential_dB = PotentialDB(PotentialLAI)]
    /\ pc' = "nitrogen"
    /\ UNCHANGED <<inputs, outside, hist, i, water_mm, Nmin, biomass, TT_accum, daily,
                   uptake_cum, rows_done, summary>>

\* potential_dB * 10.0 * 0.03
Ndemand == (loc.potential_dB * 10 * 3) \div 100

supply == SumSeq(Nmin)

uptake == Min(Ndemand, supply)

\* Nmin -= uptake * root_frac, without the mineralization
NminAfterUptake_NoMineralization == [l \in 1..n_layers |->
    Nmin[l] - Mul(uptake, root_frac[l])]

\* Nmin -= uptake * root_frac; Nmin += mineralization_rate / n_layers
NminAfterUptake == [l \in 1..n_layers |->
    Nmin[l] - Mul(uptake, root_frac[l]) + mineralization_rate \div n_layers]

\* np.maximum(water_mm - FC * thickness * 1000.0, 0.0)
percol == [l \in 1..n_layers |-> Max(water_mm[l] - FieldCapacity_mm[l], 0)]

\* leaching_factor * percol * (Nmin / (water_mm + 1e-6))
leach == [l \in 1..n_layers |->
    Mul(Mul(leaching_factor, percol[l]), DivEps(NminAfterUptake[l], water_mm[l]))]

\* Nmin -= leach, without the clamp at zero
NminAfterLeach_NoClamp == [l \in 1..n_layers |-> NminAfterUptake[l] - leach[l]]

\* Nmin -= leach; Nmin = np.maximum(Nmin, 0.0)
NminAfterLeach == [l \in 1..n_layers |-> Max(NminAfterUptake[l] - leach[l], 0)]

\* Nmin_total written before the leaching and the clamp
NminTotalRecorded_BeforeLeach == SumSeq(NminAfterUptake)

\* daily.at[i, 'Nmin_total'] = Nmin.sum(), written after the leaching and the clamp
NminTotalRecorded == SumSeq(NminAfterLeach)

\* supply / (Ndemand + 1e-6), without the cap at 1
NNI_NoCap == DivEps(supply, Ndemand)

\* min(1.0, supply / (Ndemand + 1e-6))
NNI == Min(SCALE, DivEps(supply, Ndemand))

\* 5. Nitrogen uptake, mineralization, leaching, and the NNI
Nitrogen ==
    /\ pc = "nitrogen"
    /\ Nmin' = NminAfterLeach
    /\ daily' = SetDaily(daily, "Nmin_total", NminTotalRecorded)
    /\ loc' = [loc EXCEPT !.Ndemand = Ndemand, !.supply = supply,
                          !.uptake = uptake, !.NNI = NNI]
    /\ uptake_cum' = uptake_cum + uptake
    /\ pc' = "apply"
    /\ UNCHANGED <<inputs, outside, hist, i, water_mm, biomass, TT_accum, rows_done, summary>>

\* dB = potential_dB * NNI
GrowthIncrement == Mul(loc.potential_dB, loc.NNI)

\* daily.at[i, 'LAI'] = LAI * NNI
RecordedLAI == Mul(loc.LAI, loc.NNI)

\* 6. Apply NNI to growth
ApplyNNI ==
    /\ pc = "apply"
    /\ biomass' = biomass + GrowthIncrement
    /\ loc' = [loc EXCEPT !.dB = GrowthIncrement]
    /\ daily' = SetDaily(SetDaily(daily, "Biomass", biomass'), "LAI", RecordedLAI)
    /\ rows_done' = rows_done + 1
    /\ hist' = Append(hist, loc')
    /\ pc' = "maturity"
    /\ UNCHANGED <<inputs, outside, i, water_mm, Nmin, TT_accum, uptake_cum, summary>>

\* (day - sow_date).days >= crop['Cycle_days']
AtMaturity == day - sow_date >= crop.Cycle_days

\* Terminate at maturity: break, or go on with the next row
Maturity ==
    /\ pc = "maturity"
    /\ pc' = IF AtMaturity THEN "summary" ELSE "for"
    /\ UNCHANGED <<inputs, outside, hist, i, water_mm, Nmin, biomass, TT_accum, daily, loc,
                   uptake_cum, rows_done, summary>>

\* The summary dict.
SummaryOf ==
    [final_biomass |-> biomass,
     grain_yield_est |-> biomass \div 2,
     total_ETa |-> SumSeq([k \in 1..n_days |-> daily[k].ETa]),
     total_uptake_N |-> management.initial_nitrate_kgN_ha - SumSeq(Nmin),
     days_simulated |-> i + 1]

\* Summary outputs and the return.  With an empty weather frame the loop never
\* binds i, and i + 1 raises UnboundLocalError: nothing is returned.
Summary ==
    /\ pc = "summary"
    /\ IF i = -1
       THEN /\ pc' = "error"
            /\ summary' = summary
       ELSE /\ pc' = "done"
            /\ summary' = SummaryOf
    /\ UNCHANGED <<inputs, outside, hist, i, water_mm, Nmin, biomass, TT_accum, daily, loc,
                   uptake_cum, rows_done>>

Next ==
    \/ ForNext
    \/ ThermalTime
    \/ Events
    \/ WaterBalance
    \/ Growth
    \/ Nitrogen
    \/ ApplyNNI
    \/ Maturity
    \/ Summary

Spec == Init /\ [][Next]_vars

\* A second call of run_simulation on the same four objects, after the first
\* has returned or raised: every local starts again from the objects as they
\* are now.
Rerun ==
    /\ pc \in {"done", "error"}
    /\ run = 1
    /\ run' = 2
    /\ first' = [daily |-> daily, summary |-> summary, pc |-> pc]
    /\ pc' = "for"
    /\ i' = -1
    /\ water_mm' = InitWater
    /\ Nmin' = InitNmin
    /\ biomass' = 0
    /\ TT_accum' = 0
    /\ daily' = InitDaily
    /\ loc' = NoLocals
    /\ uptake_cum' = 0
    /\ rows_done' = 0
    /\ hist' = <<>>
    /\ summary' = NoSummary
    /\ UNCHANGED <<inputs, given, fetching>>

NextTwoRuns ==
    \/ Next
    \/ Rerun

SpecTwoRuns == Init /\ [][NextTwoRuns]_vars

-----------------------------------------------------------------------------
(* weather_fetch.py: fetch_weather and fetch_moving_avg_forecast *)

MaxSpan == 3     \* the longest window is MaxSpan + 1 days
MaxAhead == 2    \* the window starts at most MaxAhead days from today

\* datetime.date
IsLeap(yr) == (yr % 4 = 0 /\ yr % 100 # 0) \/ yr % 400 = 0

DaysInMonth(yr, mo) ==
    IF mo = 2 THEN (IF IsLeap(yr) THEN 29 ELSE 28)
    ELSE IF mo \in {4, 6, 9, 11} THEN 30 ELSE 31

Date(yr, mo, dy) == [year |-> yr, month |-> mo, day |-> dy]

IsDate(dt) ==
    /\ dt.month \in 1..12
    /\ dt.day \in 1..DaysInMonth(dt.year, dt.month)

\* dt + timedelta(days=1)
NextDay(dt) ==
    IF dt.day < DaysInMonth(dt.year, dt.month) THEN Date(dt.year, dt.month, dt.day + 1)
    ELSE IF dt.month < 12 THEN Date(dt.year, dt.month + 1, 1)
    ELSE Date(dt.year + 1, 1, 1)

\* dt - timedelta(days=1)
PrevDay(dt) ==
    IF dt.day > 1 THEN Date(dt.year, dt.month, dt.day - 1)
    ELSE IF dt.month > 1 THEN Date(dt.year, dt.month - 1, DaysInMonth(dt.year, dt.month - 1))
    ELSE Date(dt.year - 1, 12, 31)

\* dt + timedelta(days=n)
RECURSIVE PlusDays(_, _)
PlusDays(dt, n) ==
    IF n = 0 THEN dt
    ELSE IF n > 0 THEN PlusDays(NextDay(dt), n - 1)
    ELSE PlusDays(PrevDay(dt), n + 1)

\* a < b, a <= b, min and max of dates
Before(a, b) ==
    \/ a.year < b.year
    \/ a.year = b.year /\ a.month < b.month
    \/ a.year = b.year /\ a.month = b.month /\ a.day < b.day

NotAfter(a, b) == a = b \/ Before(a, b)

MinDate(a, b) == IF NotAfter(a, b) THEN a ELSE b

MaxDate(a, b) == IF NotAfter(a, b) THEN b ELSE a

\* dt.isoformat(): 'YYYY-MM-DD', as its three fields
IsoFormat(dt) == <<dt.year, dt.month, dt.day>>

\* pd.to_datetime(text).date()
ToDate(text) == Date(text[1], text[2], text[3])

\* dt.replace(year=yr) raises ValueError when the result is no date
CanReplaceYear(dt, yr) == IsDate(Date(yr, dt.month, dt.day))

ReplaceYear(dt, yr) == Date(yr, dt.month, dt.day)

\* dt.strftime('%m-%d')
DayOfYear(dt) == <<dt.month, dt.day>>

\* the days of [a, b], ascending; none when b < a
RECURSIVE DateRange(_, _)
DateRange(a, b) ==
    IF Before(b, a) THEN <<>> ELSE <<a>> \o DateRange(NextDay(a), b)

\* fetch_historical with a source that returns one row per requested day
fetch_historical(start_date, end_date) ==
    LET ds == DateRange(ToDate(start_date), ToDate(end_date))
    IN  [k \in 1..Len(ds) |-> [date |-> ds[k], source |-> "historical", filled |-> TRUE]]

years == 4

yesterday == PrevDay(today)

hist_end == MinDate(ed, yesterday)

future_start == MaxDate(sd, today)

\* The days today can be, and the windows asked for
Todays == {Date(2027, 6, 15), Date(2027, 12, 31), Date(2028, 2, 28), Date(2028, 2, 29)}

InitFetch ==
    /\ today \in Todays
    /\ \E a \in (0 - MaxAhead)..MaxAhead, n \in 0..MaxSpan :
        /\ sd = PlusDays(today, a)
        /\ ed = PlusDays(PlusDays(today, a), n)
    /\ fpc = "start"
    /\ parts = <<>>
    /\ y_off = 0
    /\ frames = <<>>
    /\ df = <<>>
    /\ soil = CHOOSE s \in Soils : Len(s.layers) = 1 /\ s.layers[1].depth_bottom > SCALE
    /\ weather = <<>>
    /\ crop = CHOOSE c \in Crops : c.Cycle_days = MaxCycle
    /\ management = CHOOSE m \in Managements :
                        m.fertilization = <<>> /\ m.initial_nitrate_kgN_ha = 0
    /\ policy = "B"
    /\ pc = "for"
    /\ i = -1
    /\ water_mm = InitWater
    /\ Nmin = InitNmin
    /\ biomass = 0
    /\ TT_accum = 0
    /\ daily = InitDaily
    /\ loc = NoLocals
    /\ uptake_cum = 0
    /\ rows_done = 0
    /\ hist = <<>>
    /\ summary = NoSummary
    /\ run = 1
    /\ given = inputs
    /\ first = NoFirst

simulation == <<inputs, pc, i, water_mm, Nmin, biomass, TT_accum, daily, loc,
                uptake_cum, rows_done, hist, summary, run, given, first>>

\* Historical part
HistoricalPart ==
    /\ fpc = "start"
    /\ parts' = IF NotAfter(sd, yesterday)
                THEN Append(parts, fetch_historical(IsoFormat(sd), IsoFormat(hist_end)))
                ELSE parts
    /\ fpc' = "future"
    /\ UNCHANGED <<simulation, today, sd, ed, y_off, frames, df>>

\* Future estimate part: the call of fetch_moving_avg_forecast, if any
FuturePart ==
    /\ fpc = "future"
    /\ IF NotAfter(today, ed)
       THEN /\ y_off' = 1
            /\ frames' = <<>>
            /\ fpc' = "years"
       ELSE /\ fpc' = "concat"
            /\ UNCHANGED <<y_off, frames>>
    /\ UNCHANGED <<simulation, today, sd, ed, parts, df>>

\* for y in range(1, years+1): one historical frame, as its day_of_year column
ForecastYear ==
    /\ fpc = "years"
    /\ y_off <= years
    /\ IF /\ CanReplaceYear(future_start, future_start.year - y_off)
          /\ CanReplaceYear(ed, ed.year - y_off)
       THEN LET year_offset_sd == ReplaceYear(future_start, future_start.year - y_off)
                year_offset_ed == ReplaceYear(ed, ed.year - y_off)
                df_hist == fetch_historical(IsoFormat(year_offset_sd),
                                            IsoFormat(year_offset_ed))
            IN  /\ frames' = Append(frames,
                                    [k \in 1..Len(df_hist) |-> DayOfYear(df_hist[k].date)])
                /\ y_off' = y_off + 1
                /\ fpc' = "years"
       ELSE /\ fpc' = "ValueError"
            /\ UNCHANGED <<y_off, frames>>
    /\ UNCHANGED <<simulation, today, sd, ed, parts, df>>

\* df_concat.groupby('day_of_year'): the keys of the averaged frame
df_avg == UNION {{frames[f][k] : k \in 1..Len(frames[f])} : f \in 1..Len(frames)}

\* The forecast dates left-merged with the averages: one row per date, filled
\* where the averaged frame has the day
df_forecast ==
    LET ds == DateRange(future_start, ed)
    IN  [k \in 1..Len(ds) |->
            [date |-> ds[k], source |-> "forecast", filled |-> DayOfYear(ds[k]) \in df_avg]]

\* The end of fetch_moving_avg_forecast, and parts.append of what it returns
ForecastMerge ==
    /\ fpc = "years"
    /\ y_off > years
    /\ parts' = Append(parts, df_forecast)
    /\ fpc' = "concat"
    /\ UNCHANGED <<simulation, today, sd, ed, y_off, frames, df>>

RECURSIVE Concat(_)
Concat(fs) == IF fs = <<>> THEN <<>> ELSE Head(fs) \o Concat(Tail(fs))

\* if not parts: raise; else concatenate and return
Return ==
    /\ fpc = "concat"
    /\ IF parts = <<>>
       THEN /\ fpc' = "ValueError"
            /\ df' = df
       ELSE /\ fpc' = "returned"
            /\ df' = Concat(parts)
    /\ UNCHANGED <<simulation, today, sd, ed, parts, y_off, frames>>

NextFetch ==
    \/ HistoricalPart
    \/ FuturePart
    \/ ForecastYear
    \/ ForecastMerge
    \/ Return

SpecFetch == InitFetch /\ [][NextFetch]_vars

-----------------------------------------------------------------------------
(* Properties *)

\* |a - b| <= 0.1: equal up to the rounding of the fixed-point arithmetic
Near(a, b) == a - b <= SCALE \div 10 /\ b - a <= SCALE \div 10

\* The weather series covers [sowing_date, sowing_date + Cycle_days] (the
\* series is date-ascending and gap-free by construction).
Covers ==
    /\ n_days > 0
    /\ dates[1] <= sow_date
    /\ dates[n_days] >= sow_date + crop.Cycle_days

\* The loop is inside its body, at row i.
InBody == pc \in {"thermal", "events", "water", "growth", "nitrogen", "apply", "maturity"}

\* C1: with a covering weather series (which may start before the sowing date
\* and extend past the end of the cycle) days_simulated = Cycle_days + 1 and
\* no row dated after sowing_date + Cycle_days is processed by the loop.
C1_TerminationBound ==
    Covers =>
        /\ \A k \in 1..(i + 1) : dates[k] <= sow_date + crop.Cycle_days
        /\ pc = "done" => summary.days_simulated = crop.Cycle_days + 1

\* C2: a run configured as Policy A has, on every day, dB = potential_dB and
\* a recorded LAI that is not multiplied by the NNI.
C2_PolicyASelectable ==
    (policy = "A" /\ pc = "maturity") =>
        /\ loc.dB = loc.potential_dB
        /\ daily[i + 1].LAI = loc.LAI

\* C3: every layer's water_mm and Nmin is >= 0 after every update of a day.
C3_NonNegative ==
    \A l \in 1..n_layers : water_mm[l] >= 0 /\ Nmin[l] >= 0

\* C3: a day whose nitrogen update was clamped: the uptake taken by thickness
\* weight exceeded what a layer held.
C3_Witness ==
    /\ pc = "apply"
    /\ loc.uptake > 0
    /\ \E l \in 1..n_layers : Nmin[l] = 0

\* Initial nitrate 0 and no fertilization event.
NitrogenExhausted ==
    /\ management.initial_nitrate_kgN_ha = 0
    /\ management.fertilization = <<>>

\* C4 as stated: with initial nitrate 0 and no fertilization, NNI = 0 on every
\* simulated day and the biomass stays 0.
C4_ExhaustionAllDays ==
    (NitrogenExhausted /\ pc = "maturity") => (loc.NNI = 0 /\ biomass = 0)

\* C4, amended: with initial nitrate 0 and no fertilization, NNI = 0 and the
\* biomass is 0 on the first simulated day; on every later day the supply is
\* positive (the mineralized nitrogen of the days before), NNI > 0, and the
\* biomass grows whenever the potential increment is positive.
C4_ExhaustionFirstDay ==
    (NitrogenExhausted /\ pc = "maturity") =>
        /\ i = 0 => (loc.supply = 0 /\ loc.NNI = 0 /\ loc.dB = 0 /\ biomass = 0)
        /\ i >= 1 => /\ loc.supply > 0
                     /\ loc.NNI > 0
                     /\ loc.potential_dB > 0 => loc.dB > 0

\* C4: a nitrogen-exhausted run that grows biomass on a later day.
C4_Witness ==
    /\ NitrogenExhausted
    /\ pc = "maturity"
    /\ i >= 1
    /\ loc.dB > 0

RECURSIVE SumAmounts(_, _, _)
\* the sum of the amounts (field f) of the events dated d
SumAmounts(evs, d, f) ==
    IF evs = <<>> THEN 0
    ELSE (IF Head(evs).date = d THEN Head(evs)[f] ELSE 0) + SumAmounts(Tail(evs), d, f)

\* C5: the nitrogen (water) the events step adds to the pools is the sum of
\* the amounts of all the fertilization (irrigation) events of that date.
C5_DuplicatesAdd ==
    [][pc = "events" =>
        /\ Near(SumSeq(Nmin') - SumSeq(Nmin),
                SumAmounts(management.fertilization, day, "amount_kgN_ha"))
        /\ Near(SumSeq(water_mm') - SumSeq(water_mm),
                SumAmounts(management.irrigation, day, "amount_mm"))]_vars

\* C6: the returned daily frame has as many rows as days were simulated.
C6_OneRowPerDay ==
    pc = "done" => Len(daily) = summary.days_simulated

\* C7: a weather series that is empty or does not cover the cycle is refused
\* before any day is simulated, and nothing is returned.
C7_NonCoveringRefused ==
    ~Covers => (~InBody /\ rows_done = 0 /\ pc # "done")

\* C8: total_uptake_N is the sum of the uptake of every simulated day.
C8_CumulativeUptake ==
    pc = "done" => Near(summary.total_uptake_N, uptake_cum)

\* C9: total_uptake_N = initial nitrate - the Nmin_total recorded in the row
\* of the last simulated day.
C9_MassAccounting ==
    pc = "done" =>
        summary.total_uptake_N =
            management.initial_nitrate_kgN_ha - daily[summary.days_simulated].Nmin_total

\* C9: a finished run of several days, with leaching on its last day, whose
\* frame holds rows after the last simulated one.
C9_Witness ==
    /\ pc = "done"
    /\ summary.days_simulated >= 2
    /\ summary.days_simulated < Len(daily)
    /\ summary.total_uptake_N # 0
    /\ \E l \in 1..n_layers : water_mm[l] > FieldCapacity_mm[l]

\* C10: the LAI recorded for every day is within 0..Max_LAI.
C10_LAIBound ==
    \A k \in 1..n_days : daily[k].LAI >= 0 /\ daily[k].LAI <= crop.Max_LAI

\* C10: a day after the first on which the cap acted: the LAI recorded the day
\* before plus the daily increment exceeds Max_LAI, and Max_LAI is recorded.
C10_Witness ==
    /\ pc = "maturity"
    /\ i >= 1
    /\ daily[i + 1].LAI = crop.Max_LAI
    /\ daily[i].LAI + base_dLAI > crop.Max_LAI

\* The run is over, its weather series started on the sowing date and the NNI
\* was 1 on every simulated day.
ZeroStressRun ==
    /\ pc = "done"
    /\ dates[1] = sow_date
    /\ \A k \in 1..Len(hist) : hist[k].NNI = SCALE

\* C11: in a zero-stress run with an even Cycle_days the recorded LAI is below
\* Max_LAI on every day with days_since_sowing < Cycle_days / 2 and equals
\* Max_LAI on the day with days_since_sowing = Cycle_days / 2.
C11_MaxLAIAtHalfCycle ==
    (ZeroStressRun /\ crop.Cycle_days % 2 = 0) =>
        \A k \in 1..rows_done :
            /\ 2 * (dates[k] - sow_date) < crop.Cycle_days => daily[k].LAI < crop.Max_LAI
            /\ 2 * (dates[k] - sow_date) = crop.Cycle_days => daily[k].LAI = crop.Max_LAI

\* WP * thickness * 1000: a layer's water content at the wilting point (mm)
WiltingPoint_mm == [l \in 1..n_layers |-> Mul(WP[l], thickness[l]) * 1000]

\* No rain on any day, no irrigation event, and field_capacity =
\* wilting_point + 0.01 in every layer.
Drought ==
    /\ \A k \in 1..n_days : weather[k].RAIN = 0
    /\ management.irrigation = <<>>
    /\ \A l \in 1..n_layers : FC[l] = WP[l] + SCALE \div 100

\* C12: in a drought run no layer, whatever its thickness, ends far below its
\* wilting-point content: not by more than the whole available water
\* (field-capacity content - wilting-point content) the layer can hold.
C12_DroughtStopsAtWiltingPoint ==
    (Drought /\ pc = "done") =>
        \A l \in 1..n_layers :
            water_mm[l] >= WiltingPoint_mm[l] - (FieldCapacity_mm[l] - WiltingPoint_mm[l])

\* C14: the NNI of every simulated day is within 0..1.
C14_NNIRange ==
    /\ loc.NNI >= 0 /\ loc.NNI <= SCALE
    /\ \A k \in 1..Len(hist) : hist[k].NNI >= 0 /\ hist[k].NNI <= SCALE

\* C14: a day on which the cap at 1 acted (supply above a positive demand) in
\* a run that also had a day with an NNI strictly between 0 and 1.
C14_Witness ==
    /\ pc = "apply"
    /\ loc.Ndemand > 0
    /\ loc.supply > loc.Ndemand
    /\ loc.NNI = SCALE
    /\ \E k \in 1..Len(hist) : hist[k].NNI > 0 /\ hist[k].NNI < SCALE

\* C15: over the simulated days the recorded thermal time never decreases,
\* and grows each day by max(0, (tmin + tmax) / 2 - 8.0).
C15_MonotoneTT ==
    \A k \in 2..rows_done :
        /\ daily[k].TT >= daily[k - 1].TT
        /\ daily[k].TT - daily[k - 1].TT =
               Max(0, (weather[k].TMIN + weather[k].TMAX) \div 2 - 8 * SCALE)

\* C15: a day colder than the base temperature after a warmer one: the
\* thermal time stays where it was.
C15_Witness ==
    /\ rows_done >= 2
    /\ daily[1].TT > 0
    /\ daily[2].TT = daily[1].TT
    /\ (weather[2].TMIN + weather[2].TMAX) \div 2 < 8 * SCALE

C18_LAIIgnoresPastStress ==
    (pc = "nitrogen" /\ i >= 1) =>
        loc.LAI = IF (day - sow_date) * SCALE <= veg_days
                  THEN Min(hist[i].LAI + base_dLAI, crop.Max_LAI)
                  ELSE hist[i].LAI

\* C19: the nitrogen step of a day changes Nmin_total by + 0.5 - uptake -
\* leaching, and takes from no layer more than the layer holds.
C19_DailyNitrogenBalance ==
    [][pc = "nitrogen" =>
        /\ Near(SumSeq(Nmin'),
                SumSeq(Nmin) + mineralization_rate - uptake - SumSeq(leach))
        /\ \A l \in 1..n_layers : Mul(uptake, root_frac[l]) <= Nmin[l]]_vars

\* C20: for every layer the available-water fraction is 1 at the layer's
\* field-capacity content and 0 at its wilting-point content, and on the
\* first day every layer loses the full PET.
C20_AvailFracEndpoints ==
    /\ \A l \in 1..n_layers :
        /\ AvailFrac(FieldCapacity_mm[l], l) = SCALE
        /\ AvailFrac(WiltingPoint_mm[l], l) = 0
    /\ (pc = "water" /\ i = 0) => \A l \in 1..n_layers : ETa_layers[l] = PET

C16_OneRowPerCalendarDay ==
    fpc \in {"returned", "ValueError"} =>
        /\ fpc = "returned"
        /\ [k \in 1..Len(df) |-> df[k].date] = DateRange(sd, ed)
        /\ \A k \in 1..Len(df) :
            df[k].source = IF Before(df[k].date, today) THEN "historical" ELSE "forecast"

\* C21: the water-balance step of a day records an ETa that is at most that
\* day's PET, and changes the total soil water by + rain - ETa (the day's
\* irrigation is added by the events step before it).
C21_ETaBoundedAndRemoved ==
    [][pc = "water" =>
        /\ daily'[i + 1].ETa <= PET
        /\ Near(SumSeq(water_mm'), SumSeq(water_mm) + row.RAIN - daily'[i + 1].ETa)]_vars

====
